---- MODULE Spec2Model ----
(***************************************************************************)
(* Model of the bookmark ingestion core of sava:                           *)
(*   api/ingestors/registry_backup.py  (registry, add_bookmark)            *)
(*   api/ingestors/tiktok_api.py       (TikTokApiIngestor)                 *)
(*   api/ingestors/tiktok.py, youtube.py, social.py (the other ingestors)  *)
(*   api/ingestors/instagram_api.py    (InstagramApiIngestor)              *)
(*   api/models.py                     (tables and their constraints)      *)
(*   api/main.py                       (create_bookmark, delete_bookmark,  *)
(*                                      list_bookmarks, detect_platform)   *)
(*   api/db.py                         (get_db)                            *)
(*   api/ingestors/registry_optimized.py (add_bookmark_ultra_fast)         *)
(*   api/ingestors/tiktok_optimized.py, youtube_optimized.py               *)
(*                                                                         *)
(* A URL is the record [scheme, netloc, path] that urlparse yields; its    *)
(* parts are tokens, and "needle in haystack" is the relation InStr over   *)
(* those tokens.  Each request slot runs one create_bookmark call; a step  *)
(* of a request is the code between two suspension points (await) or two   *)
(* database transactions.                                                  *)
(***************************************************************************)
EXTENDS Integers, Sequences, FiniteSets, TLC

\* ------------------------------------------------------------------ bounds
NumUsers == 2
NumReq == 2
MaxOps == 3
MaxSeqOps == 2
MaxClock == 2

\* Cache lifetimes, in units of 1800 seconds: tiktok_optimized.cache has
\* ttl=1800, youtube_optimized.cache has ttl=3600.
TikTokTtl == 1
YouTubeTtl == 2

Users == 1..NumUsers
Reqs == 1..NumReq

Null == "None"

\* ------------------------------------------------------------------- URLs
\* The URL strings the requests are drawn from.
U_yt1 == [scheme |-> "https", netloc |-> "youtube.com", path |-> "/watch1"]
U_yt2 == [scheme |-> "https", netloc |-> "youtu.be", path |-> "/watch1"]
U_tt == [scheme |-> "https", netloc |-> "vm.tiktok.com", path |-> "/video7"]
U_ig == [scheme |-> "https", netloc |-> "instagram.com", path |-> "/p/1"]
U_blog == [scheme |-> "https", netloc |-> "example.com", path |-> "/post"]
U_blogtt == [scheme |-> "https", netloc |-> "example.com", path |-> "/tiktok.com"]

URLS == {U_yt1, U_yt2, U_tt, U_ig, U_blog, U_blogtt}

\* Further URL strings, given to add_bookmark and to the ingestors one call at
\* a time: a profile page without content id, platform domains inside the
\* path, and strings without scheme and host (urlparse puts all of such a
\* string into the path).
U_igu == [scheme |-> "https", netloc |-> "instagram.com", path |-> "/someuser"]
U_blogyt == [scheme |-> "https", netloc |-> "example.com", path |-> "/youtube.com"]
U_ytig == [scheme |-> "https", netloc |-> "youtube.com", path |-> "/instagram.com"]
U_bad_ig == [scheme |-> "", netloc |-> "", path |-> "instagram.com/p/1"]
U_bad_yt == [scheme |-> "", netloc |-> "", path |-> "youtube.com/watch1"]
U_bad_tt == [scheme |-> "", netloc |-> "", path |-> "tiktok.com/video7"]

U_blogboth == [scheme |-> "https", netloc |-> "example.com", path |-> "/youtube.com/tiktok.com"]

WideUrls == URLS \cup {U_igu, U_blogyt, U_ytig, U_bad_ig, U_bad_yt, U_bad_tt, U_blogboth}

\* A second TikTok video, for the calls that go to one ingestor directly.
U_tt2 == [scheme |-> "https", netloc |-> "tiktok.com", path |-> "/video8"]

\* Proper substring facts between the tokens above (needle, haystack).
ProperSub == {<<"tiktok.com", "vm.tiktok.com">>, <<"tiktok.com", "/tiktok.com">>,
              <<"youtube.com", "/youtube.com">>, <<"instagram.com", "/instagram.com">>,
              <<"instagram.com", "instagram.com/p/1">>,
              <<"youtube.com", "youtube.com/watch1">>,
              <<"tiktok.com", "tiktok.com/video7">>,
              <<"youtube.com", "/youtube.com/tiktok.com">>,
              <<"tiktok.com", "/youtube.com/tiktok.com">>}

\* Python's `needle in haystack` for the tokens of the model.
InStr(needle, hay) == hay = needle \/ <<needle, hay>> \in ProperSub

\* `needle in url.lower()`: the needle is a domain, so it lies within one part.
InUrl(needle, url) == InStr(needle, url.netloc) \/ InStr(needle, url.path)

\* BaseIngestor.validate_url: scheme and netloc both non-empty.
validate_url(url) == url.scheme # "" /\ url.netloc # ""

\* ------------------------------------------------------------- ingestors
\* registry_backup.INGESTORS, in registry order.
INGESTORS == <<"YouTubeIngestor", "TikTokApiIngestor", "TikTokIngestor",
               "InstagramIngestor", "TwitterIngestor", "LinkedInIngestor",
               "RedditIngestor", "PinterestIngestor", "SnapchatIngestor",
               "FacebookIngestor">>

\* SocialMediaIngestor subclasses: platform and domain_patterns.
SocialPatterns == [InstagramIngestor |-> {"instagram.com"},
                   TwitterIngestor |-> {"twitter.com", "x.com"},
                   LinkedInIngestor |-> {"linkedin.com"},
                   RedditIngestor |-> {"reddit.com"},
                   PinterestIngestor |-> {"pinterest.com", "pin.it"},
                   SnapchatIngestor |-> {"snapchat.com"},
                   FacebookIngestor |-> {"facebook.com", "fb.com"}]

SocialPlatform == [InstagramIngestor |-> "instagram",
                   TwitterIngestor |-> "twitter",
                   LinkedInIngestor |-> "linkedin",
                   RedditIngestor |-> "reddit",
                   PinterestIngestor |-> "pinterest",
                   SnapchatIngestor |-> "snapchat",
                   FacebookIngestor |-> "facebook"]

IsSocial(ing) == ing \in DOMAIN SocialPatterns

\* Every ingestor class of the package: the registered ones and
\* InstagramApiIngestor, which ingestors/__init__.py exports.
IngestorClasses == {INGESTORS[i] : i \in DOMAIN INGESTORS} \cup {"InstagramApiIngestor"}

\* registry_optimized.OPTIMIZED_INGESTORS, in registry order.
OPTIMIZED_INGESTORS == <<"YouTubeOptimizedIngestor", "TikTokOptimizedIngestor",
                         "InstagramIngestor", "TwitterIngestor", "LinkedInIngestor",
                         "RedditIngestor", "PinterestIngestor", "SnapchatIngestor",
                         "FacebookIngestor">>

\* <ingestor>.platform
platform(ing) ==
    IF ing \in {"YouTubeIngestor", "YouTubeOptimizedIngestor"} THEN "youtube"
    ELSE IF ing \in {"TikTokApiIngestor", "TikTokIngestor", "TikTokOptimizedIngestor"}
    THEN "tiktok"
    ELSE IF ing = "InstagramApiIngestor" THEN "instagram"
    ELSE SocialPlatform[ing]

\* <ingestor>.can_handle(url)
can_handle(ing, url) ==
    IF ing = "YouTubeIngestor"
    THEN validate_url(url)
         /\ (InStr("youtube.com", url.netloc) \/ InStr("youtu.be", url.netloc)
             \/ InStr("m.youtube.com", url.netloc))
    ELSE IF ing = "YouTubeOptimizedIngestor"
    THEN validate_url(url)
         /\ (InStr("youtube.com", url.netloc) \/ InStr("youtu.be", url.netloc)
             \/ InStr("m.youtube.com", url.netloc) \/ InStr("www.youtube.com", url.netloc))
    ELSE IF ing \in {"TikTokApiIngestor", "TikTokIngestor"}
    THEN validate_url(url)
         /\ (InStr("tiktok.com", url.netloc) \/ InStr("vm.tiktok.com", url.netloc)
             \/ InStr("t.tiktok.com", url.netloc))
    ELSE IF ing = "TikTokOptimizedIngestor"
    THEN validate_url(url)
         /\ (InStr("tiktok.com", url.netloc) \/ InStr("vm.tiktok.com", url.netloc)
             \/ InStr("t.tiktok.com", url.netloc) \/ InStr("www.tiktok.com", url.netloc))
    ELSE \E p \in SocialPatterns[ing] : InUrl(p, url)

get_ingestor_last(url) ==
    LET hits == {i \in 1..Len(INGESTORS) : can_handle(INGESTORS[i], url)}
    IN IF hits = {} THEN Null
       ELSE INGESTORS[CHOOSE i \in hits : \A j \in hits : i >= j]

\* get_ingestor: the first ingestor in registry order that can handle the URL.
get_ingestor(url) ==
    LET hits == {i \in 1..Len(INGESTORS) : can_handle(INGESTORS[i], url)}
    IN IF hits = {} THEN Null
       ELSE INGESTORS[CHOOSE i \in hits : \A j \in hits : i <= j]

\* registry_optimized.get_ingestor: the first optimized ingestor that can
\* handle the URL.
get_ingestor_optimized(url) ==
    LET hits == {i \in 1..Len(OPTIMIZED_INGESTORS) : can_handle(OPTIMIZED_INGESTORS[i], url)}
    IN IF hits = {} THEN Null
       ELSE OPTIMIZED_INGESTORS[CHOOSE i \in hits : \A j \in hits : i <= j]

\* asyncio.iscoroutinefunction(ingestor.extract_metadata): `async def`.
IsCoroutine(ing) ==
    ing \in {"TikTokApiIngestor", "TikTokIngestor", "TikTokOptimizedIngestor",
             "YouTubeOptimizedIngestor"}

\* Whether the caller awaits what extract_metadata returns:
\* _create_new_bookmark awaits a coroutine function and calls a plain one;
\* _create_new_bookmark_optimized awaits in every case.
Awaits(fn, ing) == IF fn = "add_bookmark_ultra_fast" THEN TRUE ELSE IsCoroutine(ing)

\* get_tiktok_ingestors: the tiktok ingestors that can handle the URL, in
\* registry order.
get_tiktok_ingestors(url) ==
    SelectSeq(INGESTORS, LAMBDA ing : platform(ing) = "tiktok" /\ can_handle(ing, url))

\* _detect_platform: the first matching rule of the if/elif ladder.
DetectRules == << <<"youtube", {"youtube.com", "youtu.be"}>>,
                  <<"tiktok", {"tiktok.com"}>>,
                  <<"instagram", {"instagram.com"}>>,
                  <<"twitter", {"twitter.com", "x.com"}>>,
                  <<"linkedin", {"linkedin.com"}>>,
                  <<"reddit", {"reddit.com"}>>,
                  <<"pinterest", {"pinterest.com", "pin.it"}>>,
                  <<"snapchat", {"snapchat.com"}>>,
                  <<"facebook", {"facebook.com", "fb.com"}>> >>

\* main.detect_platform: the first matching `if`, tiktok before youtube.
MainDetectRules == << <<"tiktok", {"tiktok.com"}>>,
                      <<"youtube", {"youtube.com", "youtu.be"}>>,
                      <<"instagram", {"instagram.com"}>>,
                      <<"twitter", {"twitter.com", "x.com"}>>,
                      <<"linkedin", {"linkedin.com"}>>,
                      <<"reddit", {"reddit.com"}>>,
                      <<"pinterest", {"pinterest.com", "pin.it"}>>,
                      <<"snapchat", {"snapchat.com"}>>,
                      <<"facebook", {"facebook.com", "fb.com"}>> >>

detect_platform(url) ==
    LET hits == {i \in 1..Len(MainDetectRules) :
                     \E d \in MainDetectRules[i][2] : InUrl(d, url)}
    IN IF hits = {} THEN "other"
       ELSE MainDetectRules[CHOOSE i \in hits : \A j \in hits : i <= j][1]

_detect_platform_partial(url) ==
    LET hits == {i \in 1..Len(DetectRules) : \E d \in DetectRules[i][2] : InUrl(d, url)}
    IN IF hits = {} THEN Null
       ELSE DetectRules[CHOOSE i \in hits : \A j \in hits : i <= j][1]

_detect_platform(url) ==
    LET hits == {i \in 1..Len(DetectRules) : \E d \in DetectRules[i][2] : InUrl(d, url)}
    IN IF hits = {} THEN "other"
       ELSE DetectRules[CHOOSE i \in hits : \A j \in hits : i <= j][1]


\* registry_optimized._detect_platform: the same ladder as the registry's.
_detect_platform_optimized(url) ==
    LET hits == {i \in 1..Len(DetectRules) : \E d \in DetectRules[i][2] : InUrl(d, url)}
    IN IF hits = {} THEN "other"
       ELSE DetectRules[CHOOSE i \in hits : \A j \in hits : i <= j][1]

\* ----------------------------------------------------- extraction results
\* A raw extraction payload: who produced it and the content id it carries
\* ("" when the platform answer has no id).  '{}' is the empty payload.
NoRaw == [src |-> Null, id |-> ""]
RawEmpty == [src |-> "{}", id |-> ""]

\* The content a URL points at (two URLs of one video share it).
ContentId(url) == url.path

\* What a remote platform can answer for a URL: a payload with or without
\* the content id.
RemoteAnswers(ing, url) == {[src |-> ing, id |-> v] : v \in {ContentId(url), ""}}

\* The paths in which the patterns of _extract_<platform>_info and of
\* _extract_media_id find a content id (r'/p/([^/]+)').
ContentPaths == {"/p/1", "instagram.com/p/1"}

\* SocialMediaIngestor.extract_metadata: no I/O; fails exactly on a URL
\* without scheme or netloc; content_id is set only where the platform's
\* pattern matches the path.
SocialExtract(ing, url) ==
    IF url.scheme = "" \/ url.netloc = ""
    THEN [ok |-> FALSE, raw |-> NoRaw]
    ELSE [ok |-> TRUE,
          raw |-> [src |-> ing,
                   id |-> IF url.path \in ContentPaths THEN ContentId(url) ELSE ""]]

\* InstagramApiIngestor._fallback_extraction: a record for any string.
_fallback_extraction(url) ==
    [src |-> "InstagramApiIngestor",
     id |-> IF url.path \in ContentPaths THEN ContentId(url) ELSE ""]

\* InstagramApiIngestor.extract_metadata: without a client the fallback
\* record; ValueError("Invalid URL format") on a URL without scheme or netloc
\* is caught by `except Exception`, which returns the fallback record too.
InstagramApiExtract(url, hasClient) ==
    IF ~hasClient THEN [ok |-> TRUE, raw |-> _fallback_extraction(url)]
    ELSE IF url.scheme = "" \/ url.netloc = ""
    THEN [ok |-> TRUE, raw |-> _fallback_extraction(url)]
    ELSE [ok |-> TRUE,
          raw |-> [src |-> "InstagramApiIngestor",
                   id |-> IF url.path \in ContentPaths THEN ContentId(url) ELSE ""]]

\* <ingestor>.normalize_metadata: YouTube and both TikTok normalizers raise
\* when the video id is empty; the social normalizers (SocialMediaIngestor,
\* InstagramApiIngestor) never raise.
normalize_metadata(ing, rawdata) ==
    [ok |-> IsSocial(ing) \/ ing = "InstagramApiIngestor" \/ rawdata.id # "",
     title |-> rawdata.src,
     author |-> rawdata.src,
     thumbnail_url |-> rawdata.src,
     description |-> rawdata.src,
     published_at |-> rawdata.src,
     video_id |-> rawdata.id]

\* ------------------------------------------------------------ exceptions
MsgDuplicate == "You already have this link bookmarked! Check your existing bookmarks to find it."
MsgAllFailed == "All TikTok ingestors failed"
MsgExtract == "metadata extraction failed"
MsgUnavailable == "TikTokApi is not available, falling back to Playwright ingestor"
MsgInit == "TikTokApi initialization failed"
MsgNormalize == "Failed to normalize metadata"

MsgAwait == "object dict can't be used in 'await' expression"

NoOutcome == [kind |-> Null, msg |-> Null, id |-> 0]

ValueError(m) == [kind |-> "ValueError", msg |-> m, id |-> 0]

RuntimeError(m) == [kind |-> "RuntimeError", msg |-> m, id |-> 0]

Returned(rowid) == [kind |-> "ok", msg |-> Null, id |-> rowid]

AllTikTokFailed_runtime == RuntimeError(MsgAllFailed)

\* The error that ends an exhausted TikTok chain.
AllTikTokFailed == ValueError(MsgAllFailed)

\* An exception that is neither ValueError nor IntegrityError, raised by the
\* database session after db.flush() (the commit cannot be carried out).
DbError == [kind |-> "OperationalError", msg |-> "database error", id |-> 0]

\* `await` applied to the dict a plain extract_metadata returned.
TypeError == [kind |-> "TypeError", msg |-> MsgAwait, id |-> 0]

Reraise_raw(exc) == exc

\* add_bookmark's except clauses: a ValueError passes, anything else is
\* wrapped in a RuntimeError.
Reraise(exc) ==
    IF exc.kind = "ValueError" THEN exc ELSE RuntimeError("Failed to add bookmark")

\* main.create_bookmark: "already" and "bookmarked" both occur in the message.
SaysAlreadyBookmarked(m) == m = MsgDuplicate

\* main.create_bookmark: the HTTP status of a finished add_bookmark call.
HttpStatus(out) ==
    IF out.kind = "ok" THEN 200
    ELSE IF out.kind = "ValueError"
    THEN (IF SaysAlreadyBookmarked(out.msg) THEN 409 ELSE 422)
    ELSE 500

\* main.create_bookmark: the detail of the HTTPException.
HttpDetail(out) ==
    IF out.kind = "ok" THEN Null
    ELSE IF out.kind = "ValueError" THEN out.msg
    ELSE "Internal server error"

\* ---------------------------------------------------------------- tables
\* Bookmark(...) as _create_new_bookmark builds it.
NewBookmark(rowid, ing, url, user, n, rawdata) ==
    [id |-> rowid, platform |-> platform(ing), url |-> url, user_id |-> user,
     title |-> n.title, author |-> n.author, thumbnail_url |-> n.thumbnail_url,
     description |-> n.description, published_at |-> n.published_at,
     note |-> Null, raw |-> rawdata]

BasicBookmark_other(rowid, url, user) ==
    [id |-> rowid, platform |-> "other", url |-> url, user_id |-> user,
     title |-> Null, author |-> Null, thumbnail_url |-> Null,
     description |-> Null, published_at |-> Null,
     note |-> Null, raw |-> RawEmpty]

\* Bookmark(...) as _create_basic_bookmark builds it.
BasicBookmark(rowid, url, user) ==
    [id |-> rowid, platform |-> _detect_platform(url), url |-> url, user_id |-> user,
     title |-> Null, author |-> Null, thumbnail_url |-> Null,
     description |-> Null, published_at |-> Null,
     note |-> Null, raw |-> RawEmpty]

EnvelopeKeys == {"id", "platform", "url", "title", "author", "thumbnail_url",
                 "note", "published_at", "created_at", "meta"}

_format_bookmark_response_nometa(row, dets) ==
    [id |-> row.id, platform |-> row.platform, url |-> row.url, title |-> row.title,
     author |-> row.author, thumbnail_url |-> row.thumbnail_url, note |-> row.note,
     published_at |-> row.published_at, created_at |-> "now"]

\* _format_bookmark_response(bookmark): the envelope; meta holds the video
\* ids of the bookmark's youtube_details for a youtube bookmark, else nothing.
_format_bookmark_response(row, dets) ==
    [id |-> row.id, platform |-> row.platform, url |-> row.url, title |-> row.title,
     author |-> row.author, thumbnail_url |-> row.thumbnail_url, note |-> row.note,
     published_at |-> row.published_at, created_at |-> "now",
     meta |-> IF row.platform = "youtube"
              THEN {d.video_id : d \in {x \in dets : x.bookmark_id = row.id}}
              ELSE {}]

\* YouTubeDetails(...) as _create_youtube_details builds it.
NewDetails(rowid, n) == [bookmark_id |-> rowid, video_id |-> n.video_id]

UrlTaken_off(url, rows) == FALSE

\* bookmarks.url UNIQUE: the insert of a row with this url is refused.
UrlTaken(url, rows) == \E b \in rows : b.url = url

VideoTaken_off(vid, dets) == FALSE

\* youtube_details.video_id UNIQUE: the insert of this video id is refused.
VideoTaken(vid, dets) == \E d \in dets : d.video_id = vid

RolledBack_keep(committed, pending) == committed \cup pending

\* db.rollback(): the table after the session's pending rows are discarded.
RolledBack(committed, pending) == committed

\* db.query(Bookmark).filter(url == url, user_id == user_id).first()
Existing(url, user, rows) == \E b \in rows : b.url = url /\ b.user_id = user


\* ----------------------------------------------------------------- state
VARIABLES
    bookmarks,        \* committed rows of table bookmarks
    details,          \* committed rows of table youtube_details
    nextId,           \* next autoincrement id of bookmarks
    pc,               \* per request: "idle", "extract", "api_remote", "persist", "done"
    ruser,            \* per request: user_id
    rurl,             \* per request: url
    chain,            \* per request: the ingestors add_bookmark iterates over
    idx,              \* per request: position in chain
    viaChain,         \* per request: TRUE inside the TikTok for-loop
    raw,              \* per request: raw_data of the current ingestor
    outcome,          \* per request: what add_bookmark returned or raised
    session,          \* per request: rows added to db and neither committed nor rolled back
    entry,            \* per request: the function the caller invoked
    apiAvailable,     \* TikTokApiIngestor._api_available
    apiInitialized,   \* TikTokApiIngestor._initialized
    metadataCache,    \* tiktok_api._metadata_cache: URLs memoized, with their payload
    ttInitialized,    \* TikTokIngestor._initialized
    log,              \* per request: one entry per ingestor attempt that ended
    hadRowAtStart,    \* per request: the caller's row for the URL existed at the call
    raced,            \* per request: another call for the same (user, url) was in flight
    apiEverFailed,    \* TikTokApiIngestor.extract_metadata has raised at least once
    ops,              \* number of requests issued so far
    dbOpen,           \* per request: the session the call works with is open
    should_close_db,  \* per request: add_bookmark opened the session itself
    clock,            \* time, in units of the shortest cache time-to-live
    memoAt,           \* when each entry of _metadata_cache was stored
    lockHolder,       \* TikTokOptimizedIngestor._browser_lock: the holding request, 0 if free
    browserInstance,  \* TikTokOptimizedIngestor._browser_instance: launch number, 0 for None
    contextInstance,  \* TikTokOptimizedIngestor._context_instance: its browser, 0 for None
    connected,        \* what _browser_instance.is_connected() answers
    driverOf,         \* the browser whose Playwright driver is running, 0 if none
    launches,         \* number of browsers launched so far
    held,             \* per request: the context _get_shared_browser returned to it
    optInitialized,   \* TikTokOptimizedIngestor._initialized
    ydlReady,         \* YouTubeOptimizedIngestor._ydl_instance is not None
    ytCache,          \* youtube_optimized.cache: entries with their payload and time
    ttCache,          \* tiktok_optimized.cache: entries with their payload and time
    denied            \* delete_bookmark has answered 404 for another user's bookmark

dbVars == <<bookmarks, details, nextId>>
reqVars == <<pc, ruser, rurl, chain, idx, viaChain, raw, outcome, session, entry>>
apiVars == <<apiAvailable, apiInitialized, metadataCache, ttInitialized>>
histVars == <<log, hadRowAtStart, raced, apiEverFailed>>
dbSessVars == <<dbOpen, should_close_db>>
browserVars == <<lockHolder, browserInstance, contextInstance, connected, driverOf,
                 launches, held, optInitialized, ydlReady>>
cacheVars == <<ytCache, ttCache>>
optVars == <<clock, browserVars, cacheVars>>
vars == <<bookmarks, details, nextId, pc, ruser, rurl, chain, idx, viaChain, raw,
          outcome, session, entry, apiAvailable, apiInitialized, metadataCache, ttInitialized,
          log, hadRowAtStart, raced, apiEverFailed, ops, dbOpen, should_close_db,
          clock, memoAt, lockHolder, browserInstance, contextInstance, connected,
          driverOf, launches, held, optInitialized, ydlReady, ytCache, ttCache, denied>>

NoUrl == [scheme |-> "", netloc |-> "", path |-> ""]

\* Module load: empty tables, TikTokApiIngestor.__init__, TikTokIngestor.__init__,
\* _metadata_cache = {}.
Init ==
    /\ bookmarks = {}
    /\ details = {}
    /\ nextId = 1
    /\ pc = [r \in Reqs |-> "idle"]
    /\ ruser = [r \in Reqs |-> 0]
    /\ rurl = [r \in Reqs |-> NoUrl]
    /\ chain = [r \in Reqs |-> <<>>]
    /\ idx = [r \in Reqs |-> 0]
    /\ viaChain = [r \in Reqs |-> FALSE]
    /\ raw = [r \in Reqs |-> NoRaw]
    /\ outcome = [r \in Reqs |-> NoOutcome]
    /\ session = [r \in Reqs |-> {}]
    /\ entry = [r \in Reqs |-> Null]
    /\ apiAvailable = TRUE
    /\ apiInitialized = FALSE
    /\ metadataCache = {}
    /\ ttInitialized = FALSE
    /\ log = [r \in Reqs |-> <<>>]
    /\ hadRowAtStart = [r \in Reqs |-> FALSE]
    /\ raced = [r \in Reqs |-> FALSE]
    /\ apiEverFailed = FALSE
    /\ ops = 0
    /\ dbOpen = [r \in Reqs |-> FALSE]
    /\ should_close_db = [r \in Reqs |-> FALSE]
    /\ clock = 0
    /\ memoAt = {}
    /\ lockHolder = 0
    /\ browserInstance = 0
    /\ contextInstance = 0
    /\ connected = FALSE
    /\ driverOf = 0
    /\ launches = 0
    /\ held = [r \in Reqs |-> 0]
    /\ optInitialized = FALSE
    /\ ydlReady = FALSE
    /\ ytCache = {}
    /\ ttCache = {}
    /\ denied = FALSE

InFlight(r) == pc[r] \in {"extract", "api_remote", "persist", "yt_remote",
                           "opt_lock", "opt_launch", "opt_context", "opt_page"}

\* The ingestor request r is currently working with.
Current(r) == chain[r][idx[r]]

LogEntry(ing, stage, err) == [ing |-> ing, stage |-> stage, err |-> err]

\* add_bookmark returns or raises `out`.
Finish(r, out) ==
    /\ pc' = [pc EXCEPT ![r] = "done"]
    /\ outcome' = [outcome EXCEPT ![r] = out]
    /\ raw' = [raw EXCEPT ![r] = NoRaw]

\* The current ingestor of request r raised `exc` in `stage`.  Inside the
\* TikTok loop the exception is logged and the next member is tried, and the
\* exhausted loop raises AllTikTokFailed; outside it the exception leaves
\* add_bookmark through its except clauses.
Fail(r, exc, stage) ==
    /\ log' = [log EXCEPT ![r] = Append(@, LogEntry(Current(r), stage, exc.msg))]
    /\ IF viaChain[r] /\ idx[r] < Len(chain[r])
       THEN /\ idx' = [idx EXCEPT ![r] = @ + 1]
            /\ pc' = [pc EXCEPT ![r] = "extract"]
            /\ raw' = [raw EXCEPT ![r] = NoRaw]
            /\ outcome' = outcome
       ELSE /\ idx' = idx
            /\ Finish(r, IF viaChain[r] THEN AllTikTokFailed ELSE Reraise(exc))

\* extract_metadata of the current ingestor returned `rawdata`.
Extracted(r, rawdata) ==
    /\ raw' = [raw EXCEPT ![r] = rawdata]
    /\ pc' = [pc EXCEPT ![r] = "persist"]
    /\ UNCHANGED <<idx, outcome, log>>

\* A plain (not `async def`) extract_metadata returned `rawdata` to the
\* caller, which awaits the value or takes it as it is.
Obtained(r, rawdata) ==
    IF Awaits(entry[r], Current(r)) /\ ~IsCoroutine(Current(r))
    THEN Fail(r, TypeError, "await")
    ELSE Extracted(r, rawdata)


CloseIfOwned_never(open, own) == open

\* add_bookmark's finally clause: db.close() if should_close_db.
CloseIfOwned(open, own) == IF own THEN FALSE ELSE open

\* The finally clause runs in the step that ends the call of request r.
Finally(r) ==
    /\ dbOpen' = [dbOpen EXCEPT ![r] = IF pc'[r] = "done"
                                       THEN CloseIfOwned(@, should_close_db[r])
                                       ELSE @]
    /\ UNCHANGED should_close_db

\* The rows pending in the session of request r after a failure that left
\* `rows` in it: db.close() discards them when the failure ends a call that
\* opened its session itself.
Pending(r, rows) ==
    IF should_close_db[r] /\ ~(viaChain[r] /\ idx[r] < Len(chain[r])) THEN {} ELSE rows

\* --------------------------------------------------------------- actions
\* add_bookmark and add_bookmark_ultra_fast up to the first await: the
\* session, the TikTok branch (add_bookmark only), the selected ingestor, the
\* basic-bookmark fallback, the existence check.  `own` says that db is
\* None, so that the call opens the session; `fn` is the function called,
\* `tiktoks` its TikTok chain and `ing` the ingestor its registry selects.
Dispatch(r, user, url, own, fn, tiktoks, ing) ==
    LET basic == BasicBookmark(nextId, url, user)
        rival(q) == q # r /\ InFlight(q) /\ ruser[q] = user /\ rurl[q] = url
    IN
    /\ pc[r] = "idle"
    /\ ops < MaxOps
    /\ ops' = ops + 1
    /\ ruser' = [ruser EXCEPT ![r] = user]
    /\ rurl' = [rurl EXCEPT ![r] = url]
    /\ hadRowAtStart' = [hadRowAtStart EXCEPT ![r] = Existing(url, user, bookmarks)]
    /\ raced' = [q \in Reqs |-> IF q = r THEN \E o \in Reqs : rival(o)
                                ELSE raced[q] \/ rival(q)]
    /\ entry' = [entry EXCEPT ![r] = fn]
    /\ should_close_db' = [should_close_db EXCEPT ![r] = own]
    /\ UNCHANGED <<apiVars, log, apiEverFailed, session, optVars, memoAt, denied>>
    /\ IF InUrl("tiktok.com", url) /\ tiktoks # <<>>
       THEN /\ chain' = [chain EXCEPT ![r] = tiktoks]
            /\ idx' = [idx EXCEPT ![r] = 1]
            /\ viaChain' = [viaChain EXCEPT ![r] = TRUE]
            /\ pc' = [pc EXCEPT ![r] = "extract"]
            /\ UNCHANGED <<raw, outcome, dbVars>>
       ELSE IF ing = Null
       THEN /\ UNCHANGED <<chain, idx, viaChain, details>>
            /\ IF UrlTaken(url, bookmarks)
               THEN /\ bookmarks' = RolledBack(bookmarks, {basic})
                    /\ nextId' = nextId
                    /\ Finish(r, ValueError(MsgDuplicate))
               ELSE /\ bookmarks' = bookmarks \cup {basic}
                    /\ nextId' = nextId + 1
                    /\ Finish(r, Returned(basic.id))
       ELSE IF Existing(url, user, bookmarks)
       THEN /\ UNCHANGED <<chain, idx, viaChain, dbVars>>
            /\ Finish(r, ValueError(MsgDuplicate))
       ELSE /\ chain' = [chain EXCEPT ![r] = <<ing>>]
            /\ idx' = [idx EXCEPT ![r] = 1]
            /\ viaChain' = [viaChain EXCEPT ![r] = FALSE]
            /\ pc' = [pc EXCEPT ![r] = "extract"]
            /\ UNCHANGED <<raw, outcome, dbVars>>
    /\ dbOpen' = [dbOpen EXCEPT ![r] = IF pc'[r] = "done" THEN CloseIfOwned(TRUE, own)
                                       ELSE TRUE]

\* registry_backup.add_bookmark(url, user_id, db).
add_bookmark(r, user, url, own) ==
    Dispatch(r, user, url, own, "add_bookmark", get_tiktok_ingestors(url), get_ingestor(url))

\* registry_optimized.add_bookmark_ultra_fast(url, user_id, db): no TikTok
\* chain, the optimized registry.
add_bookmark_ultra_fast(r, user, url, own) ==
    Dispatch(r, user, url, own, "add_bookmark_ultra_fast", <<>>, get_ingestor_optimized(url))

\* create_bookmark -> add_bookmark(url, current_user["id"], db), with the
\* session of get_db.
AddBookmark(r, user, url) == add_bookmark(r, user, url, FALSE)

\* add_bookmark(url, user_id) called without a session.
AddBookmarkNoDb(r, user, url) == add_bookmark(r, user, url, TRUE)

\* create_bookmark_ultra_fast -> add_bookmark_ultra_fast(url, id, db).
AddBookmarkUltraFast(r, user, url) == add_bookmark_ultra_fast(r, user, url, FALSE)

\* _create_new_bookmark(ingestor, url, user_id, db) called on its own, with
\* any ingestor and any string: the ingestor's extract_metadata and
\* normalize_metadata are applied to the inputs as they are.
CreateNewBookmark(r, ing, user, url) ==
    LET rival(q) == q # r /\ InFlight(q) /\ ruser[q] = user /\ rurl[q] = url
    IN
    /\ pc[r] = "idle"
    /\ ops < MaxOps
    /\ ops' = ops + 1
    /\ ruser' = [ruser EXCEPT ![r] = user]
    /\ rurl' = [rurl EXCEPT ![r] = url]
    /\ hadRowAtStart' = [hadRowAtStart EXCEPT ![r] = Existing(url, user, bookmarks)]
    /\ raced' = [q \in Reqs |-> IF q = r THEN \E o \in Reqs : rival(o)
                                ELSE raced[q] \/ rival(q)]
    /\ entry' = [entry EXCEPT ![r] = "_create_new_bookmark"]
    /\ chain' = [chain EXCEPT ![r] = <<ing>>]
    /\ idx' = [idx EXCEPT ![r] = 1]
    /\ viaChain' = [viaChain EXCEPT ![r] = FALSE]
    /\ pc' = [pc EXCEPT ![r] = "extract"]
    /\ dbOpen' = [dbOpen EXCEPT ![r] = TRUE]
    /\ should_close_db' = [should_close_db EXCEPT ![r] = FALSE]
    /\ UNCHANGED <<raw, outcome, session, dbVars, apiVars, log, apiEverFailed, optVars, memoAt, denied>>

\* InstagramApiIngestor.extract_metadata, with or without a client.
ExtractInstagramApi(r) ==
    /\ pc[r] = "extract"
    /\ Current(r) = "InstagramApiIngestor"
    /\ UNCHANGED <<optVars, memoAt, denied>>
    /\ UNCHANGED <<dbVars, ruser, rurl, chain, viaChain, session, entry, apiVars,
                   hadRowAtStart, raced, apiEverFailed, ops>>
    /\ \E hasClient \in BOOLEAN :
          LET res == InstagramApiExtract(rurl[r], hasClient)
          IN IF res.ok THEN Obtained(r, res.raw)
             ELSE Fail(r, ValueError(MsgExtract), "extract")
    /\ Finally(r)

\* YouTubeIngestor.extract_metadata: yt-dlp answers or raises.
ExtractYouTube(r) ==
    /\ pc[r] = "extract"
    /\ Current(r) = "YouTubeIngestor"
    /\ UNCHANGED <<optVars, memoAt, denied>>
    /\ UNCHANGED <<dbVars, ruser, rurl, chain, viaChain, session, entry, apiVars,
                   hadRowAtStart, raced, apiEverFailed, ops>>
    /\ IF ~can_handle("YouTubeIngestor", rurl[r])
       THEN Fail(r, ValueError(MsgExtract), "extract")
       ELSE \/ \E a \in RemoteAnswers("YouTubeIngestor", rurl[r]) : Obtained(r, a)
            \/ Fail(r, ValueError(MsgExtract), "extract")
    /\ Finally(r)

\* SocialMediaIngestor.extract_metadata.
ExtractSocial(r) ==
    /\ pc[r] = "extract"
    /\ IsSocial(Current(r))
    /\ UNCHANGED <<optVars, memoAt, denied>>
    /\ UNCHANGED <<dbVars, ruser, rurl, chain, viaChain, session, entry, apiVars,
                   hadRowAtStart, raced, apiEverFailed, ops>>
    /\ LET res == SocialExtract(Current(r), rurl[r])
       IN IF res.ok THEN Obtained(r, res.raw)
          ELSE Fail(r, ValueError(MsgExtract), "extract")
    /\ Finally(r)

\* TikTokIngestor.extract_metadata (tiktok.py): client set-up, then the
\* browser session answers, times out or raises; it cannot navigate to a
\* string without scheme or host.
ExtractTikTok(r) ==
    /\ pc[r] = "extract"
    /\ Current(r) = "TikTokIngestor"
    /\ UNCHANGED <<optVars, memoAt, denied>>
    /\ UNCHANGED <<dbVars, ruser, rurl, chain, viaChain, session, entry, apiAvailable,
                   apiInitialized, metadataCache, hadRowAtStart, raced, apiEverFailed, ops>>
    /\ \/ /\ ttInitialized' = TRUE
          /\ validate_url(rurl[r])
          /\ \E a \in RemoteAnswers("TikTokIngestor", rurl[r]) : Extracted(r, a)
       \/ /\ ttInitialized' = TRUE
          /\ Fail(r, ValueError(MsgExtract), "extract")
       \/ /\ ~ttInitialized
          /\ ttInitialized' = FALSE
          /\ Fail(r, ValueError(MsgExtract), "extract")
    /\ Finally(r)

AvailableAfterFailure_keep(avail) == avail

\* TikTokApiIngestor: the value _api_available takes in the except handlers.
AvailableAfterFailure(avail) == FALSE

ApiFirstCheck_availability(memoized, avail) ==
    IF ~avail THEN "unavailable" ELSE IF memoized THEN "memo" ELSE "call"

\* TikTokApiIngestor.extract_metadata, its first lines: the memo lookup, and
\* after it the availability check.
ApiFirstCheck(memoized, avail) ==
    IF memoized THEN "memo" ELSE IF ~avail THEN "unavailable" ELSE "call"

\* TikTokApiIngestor.extract_metadata up to its first await: memo lookup,
\* availability check, _ensure_initialized.
ApiBegin(r) ==
    /\ pc[r] = "extract"
    /\ Current(r) = "TikTokApiIngestor"
    /\ UNCHANGED <<optVars, memoAt, denied>>
    /\ UNCHANGED <<dbVars, ruser, rurl, chain, viaChain, session, entry, metadataCache,
                   ttInitialized, hadRowAtStart, raced, ops>>
    /\ IF ApiFirstCheck(\E c \in metadataCache : c.url = rurl[r], apiAvailable) = "memo"
       THEN /\ \E c \in metadataCache : c.url = rurl[r] /\ Extracted(r, c.raw)
            /\ UNCHANGED <<apiAvailable, apiInitialized, apiEverFailed>>
       ELSE IF ApiFirstCheck(\E c \in metadataCache : c.url = rurl[r], apiAvailable)
                   = "unavailable"
       THEN /\ Fail(r, ValueError(MsgUnavailable), "extract")
            /\ apiEverFailed' = TRUE
            /\ UNCHANGED <<apiAvailable, apiInitialized>>
       ELSE \/ /\ apiInitialized' = TRUE
               /\ pc' = [pc EXCEPT ![r] = "api_remote"]
               /\ UNCHANGED <<apiAvailable, apiEverFailed, idx, raw, outcome, log>>
            \/ /\ ~apiInitialized
               /\ apiInitialized' = FALSE
               /\ apiAvailable' = AvailableAfterFailure(apiAvailable)
               /\ apiEverFailed' = TRUE
               /\ Fail(r, ValueError(MsgInit), "extract")
    /\ Finally(r)

\* TikTokApiIngestor.extract_metadata after the await: the session and the
\* video request answer with a dict (memoized and returned), or time out,
\* answer nothing or raise; a string without scheme or host is never answered.
ApiRemote(r) ==
    /\ pc[r] = "api_remote"
    /\ UNCHANGED <<optVars, denied>>
    /\ UNCHANGED <<dbVars, ruser, rurl, chain, viaChain, session, entry, apiInitialized,
                   ttInitialized, hadRowAtStart, raced, ops>>
    /\ \/ \E a \in RemoteAnswers("TikTokApiIngestor", rurl[r]) :
            /\ validate_url(rurl[r])
            /\ metadataCache' = {c \in metadataCache : c.url # rurl[r]}
                                    \cup {[url |-> rurl[r], raw |-> a]}
            /\ memoAt' = {m \in memoAt : m.url # rurl[r]}
                             \cup {[url |-> rurl[r], at |-> clock]}
            /\ Extracted(r, a)
            /\ UNCHANGED <<apiAvailable, apiEverFailed>>
       \/ /\ apiAvailable' = AvailableAfterFailure(apiAvailable)
          /\ apiEverFailed' = TRUE
          /\ metadataCache' = metadataCache
          /\ memoAt' = memoAt
          /\ Fail(r, ValueError(MsgExtract), "extract")
    /\ Finally(r)

\* _create_new_bookmark after extract_metadata: normalize_metadata, db.add,
\* db.flush, _create_youtube_details, db.commit; IntegrityError -> rollback.
\* Any other exception of the session leaves _create_new_bookmark without
\* rollback: the flushed bookmark stays in the session, and a session left
\* like that refuses the next flush.
Persist(r) ==
    LET ing == Current(r)
        n == normalize_metadata(ing, raw[r])
        b == NewBookmark(nextId, ing, rurl[r], ruser[r], n, raw[r])
        d == NewDetails(nextId, n)
    IN
    /\ pc[r] = "persist"
    /\ UNCHANGED <<optVars, memoAt, denied>>
    /\ UNCHANGED <<ruser, rurl, chain, viaChain, entry, apiVars,
                   hadRowAtStart, raced, apiEverFailed, ops>>
    /\ IF ~n.ok
       THEN /\ Fail(r, ValueError(MsgNormalize), "normalize")
            /\ UNCHANGED <<dbVars, session>>
       ELSE IF session[r] # {}
       THEN /\ session' = [session EXCEPT ![r] = Pending(r, @ \cup {b})]
            /\ UNCHANGED dbVars
            /\ Fail(r, DbError, "commit")
       ELSE IF UrlTaken(b.url, bookmarks)
       THEN /\ bookmarks' = RolledBack(bookmarks, {b})
            /\ UNCHANGED <<details, nextId, session>>
            /\ Fail(r, ValueError(MsgDuplicate), "persist")
       ELSE IF platform(ing) = "youtube" /\ VideoTaken(d.video_id, details)
       THEN /\ bookmarks' = RolledBack(bookmarks, {b})
            /\ details' = RolledBack(details, {d})
            /\ UNCHANGED <<nextId, session>>
            /\ Fail(r, ValueError(MsgDuplicate), "persist")
       ELSE \/ /\ bookmarks' = bookmarks \cup {b}
               /\ details' = IF platform(ing) = "youtube" THEN details \cup {d} ELSE details
               /\ nextId' = nextId + 1
               /\ log' = [log EXCEPT ![r] = Append(@, LogEntry(ing, "done", Null))]
               /\ UNCHANGED <<idx, session>>
               /\ Finish(r, Returned(b.id))
            \/ /\ session' = [session EXCEPT ![r] = Pending(r, {b})]
               /\ UNCHANGED dbVars
               /\ Fail(r, DbError, "commit")
    /\ Finally(r)

\* The title and note a caller may send along with the URL (BookmarkIn).
BookmarkIns == {[title |-> Null, note |-> Null], [title |-> "my title", note |-> "my note"]}

SetTitleAndNote_owner(rows, rowid, b) ==
    LET owner == {row.user_id : row \in {x \in rows : x.id = rowid}}
    IN {IF row.user_id \in owner
        THEN [row EXCEPT !.title = IF b.title # Null THEN b.title ELSE @,
                         !.note = IF b.note # Null THEN b.note ELSE @]
        ELSE row : row \in rows}

\* create_bookmark: the bookmark with id result["id"] gets the caller's title
\* and note, each if it was sent.
SetTitleAndNote(rows, rowid, b) ==
    {IF row.id = rowid
     THEN [row EXCEPT !.title = IF b.title # Null THEN b.title ELSE @,
                      !.note = IF b.note # Null THEN b.note ELSE @]
     ELSE row : row \in rows}

\* The call of request r is over: its slot is free again, and its session
\* is closed (by get_db's finally clause, if add_bookmark has not closed it).
EndRequest(r) ==
    /\ pc' = [pc EXCEPT ![r] = "idle"]
    /\ ruser' = [ruser EXCEPT ![r] = 0]
    /\ rurl' = [rurl EXCEPT ![r] = NoUrl]
    /\ chain' = [chain EXCEPT ![r] = <<>>]
    /\ idx' = [idx EXCEPT ![r] = 0]
    /\ viaChain' = [viaChain EXCEPT ![r] = FALSE]
    /\ outcome' = [outcome EXCEPT ![r] = NoOutcome]
    /\ session' = [session EXCEPT ![r] = {}]
    /\ entry' = [entry EXCEPT ![r] = Null]
    /\ log' = [log EXCEPT ![r] = <<>>]
    /\ hadRowAtStart' = [hadRowAtStart EXCEPT ![r] = FALSE]
    /\ raced' = [raced EXCEPT ![r] = FALSE]
    /\ dbOpen' = [dbOpen EXCEPT ![r] = FALSE]
    /\ should_close_db' = [should_close_db EXCEPT ![r] = FALSE]
    /\ UNCHANGED <<details, nextId, raw, apiVars, apiEverFailed, ops, optVars, memoAt, denied>>

\* create_bookmark after add_bookmark: a returned bookmark gets the caller's
\* title and note; an exception becomes the HTTP error; the request ends and
\* get_db closes its session.
Respond(r, b) ==
    /\ pc[r] = "done"
    /\ ~should_close_db[r]
    /\ bookmarks' =
         IF outcome[r].kind = "ok"
         THEN SetTitleAndNote(bookmarks, outcome[r].id, b)
         ELSE bookmarks
    /\ EndRequest(r)

\* add_bookmark(url, user_id) returns to or raises in a caller that had
\* passed no session.
ReturnToCaller(r) ==
    /\ pc[r] = "done"
    /\ should_close_db[r]
    /\ bookmarks' = bookmarks
    /\ EndRequest(r)

CascadeDelete_none(dets, bookmark_id) == dets

\* Bookmark.youtube_details, cascade="all, delete-orphan": db.delete(bookmark)
\* deletes the details rows of the bookmark with it.
CascadeDelete(dets, bookmark_id) == {d \in dets : d.bookmark_id # bookmark_id}

\* db.delete(bookmark); db.commit(): the row is gone.
Deleted(rows, bookmark_id) == {row \in rows : row.id # bookmark_id}

OwnedBookmark_any(rows, bookmark_id, user) == {row \in rows : row.id = bookmark_id}

\* delete_bookmark's query: Bookmark.id == bookmark_id and
\* Bookmark.user_id == current_user["id"].
OwnedBookmark(rows, bookmark_id, user) ==
    {row \in rows : row.id = bookmark_id /\ row.user_id = user}

\* delete_bookmark's answer.
DeleteStatus(rows, bookmark_id, user) ==
    IF OwnedBookmark(rows, bookmark_id, user) = {} THEN 404 ELSE 200

\* delete_bookmark(bookmark_id, current_user): the caller's row with this id
\* is deleted together with its youtube_details (cascade); otherwise 404.
DeleteBookmark(user, bookmark_id) ==
    /\ ops < MaxOps
    /\ ops' = ops + 1
    /\ IF OwnedBookmark(bookmarks, bookmark_id, user) # {}
       THEN /\ bookmarks' = Deleted(bookmarks, bookmark_id)
            /\ details' = CascadeDelete(details, bookmark_id)
       ELSE UNCHANGED <<bookmarks, details>>
    /\ denied' = (denied \/ (/\ DeleteStatus(bookmarks, bookmark_id, user) = 404
                              /\ \E row \in bookmarks : row.id = bookmark_id))
    /\ UNCHANGED <<nextId, reqVars, apiVars, histVars, dbSessVars, optVars, memoAt>>

Next ==
    \/ \E r \in Reqs, user \in Users, url \in URLS : AddBookmark(r, user, url)
    \/ \E r \in Reqs : ExtractYouTube(r)
    \/ \E r \in Reqs : ExtractSocial(r)
    \/ \E r \in Reqs : ExtractTikTok(r)
    \/ \E r \in Reqs : ApiBegin(r)
    \/ \E r \in Reqs : ApiRemote(r)
    \/ \E r \in Reqs : Persist(r)
    \/ \E r \in Reqs, b \in BookmarkIns : Respond(r, b)
    \/ \E user \in Users, bookmark_id \in 1..MaxOps : DeleteBookmark(user, bookmark_id)

Spec == Init /\ [][Next]_vars

\* One caller, one call at a time, over the wider inputs: add_bookmark with
\* any string, and the ingestors' extract/normalize pair called directly.
NextSeq ==
    \/ \E url \in WideUrls : ops < MaxSeqOps /\ AddBookmark(1, 1, url)
    \/ \E url \in WideUrls : ops < MaxSeqOps /\ AddBookmarkNoDb(1, 1, url)
    \/ \E ing \in IngestorClasses, url \in WideUrls :
           ops < MaxSeqOps /\ CreateNewBookmark(1, ing, 1, url)
    \/ ExtractYouTube(1)
    \/ ExtractSocial(1)
    \/ ExtractTikTok(1)
    \/ ApiBegin(1)
    \/ ApiRemote(1)
    \/ ExtractInstagramApi(1)
    \/ Persist(1)
    \/ \E b \in BookmarkIns : Respond(1, b)
    \/ ReturnToCaller(1)
    \/ \E bookmark_id \in 1..MaxOps : ops < MaxSeqOps /\ DeleteBookmark(1, bookmark_id)

SeqSpec == Init /\ [][NextSeq]_vars

\* ------------------------------------------------------ list_bookmarks
\* The platform names list_bookmarks accepts.
ListPlatforms == {"youtube", "tiktok", "instagram", "twitter", "linkedin", "reddit",
                  "pinterest", "snapchat", "facebook", "other"}

\* platform.lower() on the platform parameters sent.
PlatformLower(p) == IF p = "YouTube" THEN "youtube" ELSE p

\* ilike '%q%': the (search term, column value) pairs that match.
ILikePairs == {<<"my", "my title">>, <<"my", "my note">>}

\* The parameters sent to list_bookmarks.
ListParams == [platform : {Null, "YouTube", "bogus"}, q : {Null, "my"},
               limit : {1, 100}, offset : {0, 1}]

\* list_bookmarks' query before ordering: the caller's rows, of the platform
\* if one is given, matching q in title, author, description or note if q is
\* given.
ListQuery(user, prm, rows) ==
    {row \in rows :
        /\ row.user_id = user
        /\ (prm.platform # Null => row.platform = PlatformLower(prm.platform))
        /\ (prm.q # Null =>
               \E v \in {row.title, row.author, row.description, row.note} :
                   <<prm.q, v>> \in ILikePairs)}

\* order_by(Bookmark.created_at.desc()): rows are created in id order.
RECURSIVE NewestFirst(_)
NewestFirst(rows) ==
    IF rows = {} THEN <<>>
    ELSE LET newest == CHOOSE x \in rows : \A y \in rows : y.id <= x.id
         IN <<newest>> \o NewestFirst(rows \ {newest})

\* list_bookmarks(platform, q, limit, offset, current_user): 422 for an
\* unknown platform, else the envelopes of the page of the ordered query.
list_bookmarks(user, prm, rows, dets) ==
    IF prm.platform # Null /\ PlatformLower(prm.platform) \notin ListPlatforms
    THEN [status |-> 422, results |-> <<>>]
    ELSE LET all == NewestFirst(ListQuery(user, prm, rows))
             last == IF Len(all) < prm.offset + prm.limit THEN Len(all)
                     ELSE prm.offset + prm.limit
         IN [status |-> 200,
             results |-> [i \in 1..(IF last > prm.offset THEN last - prm.offset ELSE 0) |->
                             _format_bookmark_response(all[prm.offset + i], dets)]]

\* ------------------------------------------- the optimized ingestors
LockFree_always(holder) == TRUE

\* asyncio.Lock: `async with cls._browser_lock` is entered only while no
\* task holds the lock.
LockFree(holder) == holder = 0

\* aiocache: the entries of `url` that have not reached their time-to-live.
Fresh(cache, url, ttl) == {c \in cache : c.url = url /\ clock - c.at < ttl}

\* aiocache: cache.set(key, result, ttl).
Stored(cache, url, rawdata) ==
    {c \in cache : c.url # url} \cup {[url |-> url, raw |-> rawdata, at |-> clock]}

\* YouTubeOptimizedIngestor.extract_metadata up to its first suspension: the
\* lookup of @cached, can_handle, _get_optimized_ydl.
OptYouTubeBegin(r) ==
    /\ pc[r] = "extract"
    /\ Current(r) = "YouTubeOptimizedIngestor"
    /\ UNCHANGED <<dbVars, ruser, rurl, chain, viaChain, session, entry, apiVars,
                   hadRowAtStart, raced, apiEverFailed, ops, memoAt, denied, clock,
                   lockHolder, browserInstance, contextInstance, connected, driverOf,
                   launches, held, optInitialized, cacheVars>>
    /\ IF Fresh(ytCache, rurl[r], YouTubeTtl) # {}
       THEN /\ \E c \in Fresh(ytCache, rurl[r], YouTubeTtl) : Extracted(r, c.raw)
            /\ ydlReady' = ydlReady
       ELSE IF ~can_handle("YouTubeOptimizedIngestor", rurl[r])
       THEN /\ Fail(r, ValueError(MsgExtract), "extract")
            /\ ydlReady' = ydlReady
       ELSE /\ ydlReady' = TRUE
            /\ pc' = [pc EXCEPT ![r] = "yt_remote"]
            /\ UNCHANGED <<idx, raw, outcome, log>>
    /\ Finally(r)

\* YouTubeOptimizedIngestor.extract_metadata after the executor ran
\* ydl.extract_info: the info dict (which @cached stores) or an error.
OptYouTubeRemote(r) ==
    /\ pc[r] = "yt_remote"
    /\ UNCHANGED <<dbVars, ruser, rurl, chain, viaChain, session, entry, apiVars,
                   hadRowAtStart, raced, apiEverFailed, ops, memoAt, denied, clock,
                   browserVars, ttCache>>
    /\ \/ \E a \in RemoteAnswers("YouTubeOptimizedIngestor", rurl[r]) :
            /\ ytCache' = Stored(ytCache, rurl[r], a)
            /\ Extracted(r, a)
       \/ /\ ytCache' = ytCache
          /\ Fail(r, ValueError(MsgExtract), "extract")
    /\ Finally(r)

\* TikTokOptimizedIngestor.extract_metadata up to `async with
\* cls._browser_lock`: the lookup of @cached, _ensure_initialized.
OptTikTokBegin(r) ==
    /\ pc[r] = "extract"
    /\ Current(r) = "TikTokOptimizedIngestor"
    /\ UNCHANGED <<dbVars, ruser, rurl, chain, viaChain, session, entry, apiVars,
                   hadRowAtStart, raced, apiEverFailed, ops, memoAt, denied, clock,
                   lockHolder, browserInstance, contextInstance, connected, driverOf,
                   launches, held, ydlReady, cacheVars>>
    /\ IF Fresh(ttCache, rurl[r], TikTokTtl) # {}
       THEN /\ \E c \in Fresh(ttCache, rurl[r], TikTokTtl) : Extracted(r, c.raw)
            /\ optInitialized' = optInitialized
       ELSE \/ /\ optInitialized' = TRUE
               /\ pc' = [pc EXCEPT ![r] = "opt_lock"]
               /\ UNCHANGED <<idx, raw, outcome, log>>
            \/ /\ ~optInitialized
               /\ optInitialized' = FALSE
               /\ Fail(r, ValueError(MsgInit), "extract")
    /\ Finally(r)

\* _get_shared_browser: the lock is taken; if _browser_instance is None or
\* not connected, async_playwright() is entered and the launch begins (the
\* lock stays held); otherwise the stored pair is returned and the lock
\* released.
OptAcquire(r) ==
    /\ pc[r] = "opt_lock"
    /\ LockFree(lockHolder)
    /\ UNCHANGED <<dbVars, ruser, rurl, chain, viaChain, session, entry, apiVars,
                   hadRowAtStart, raced, apiEverFailed, ops, memoAt, denied, clock,
                   browserInstance, contextInstance, connected, driverOf, launches,
                   optInitialized, ydlReady, cacheVars, idx, raw, outcome, log,
                   dbSessVars>>
    /\ IF browserInstance = 0 \/ ~connected
       THEN /\ lockHolder' = r
            /\ pc' = [pc EXCEPT ![r] = "opt_launch"]
            /\ held' = held
       ELSE /\ lockHolder' = lockHolder
            /\ pc' = [pc EXCEPT ![r] = "opt_page"]
            /\ held' = [held EXCEPT ![r] = contextInstance]

\* _get_shared_browser: p.chromium.launch(...) returns the browser, which is
\* stored in _browser_instance, or raises; a raise leaves async_playwright()
\* and the lock, and extract_metadata turns it into its ValueError.
OptLaunch(r) ==
    /\ pc[r] = "opt_launch"
    /\ UNCHANGED <<dbVars, ruser, rurl, chain, viaChain, session, entry, apiVars,
                   hadRowAtStart, raced, apiEverFailed, ops, memoAt, denied, clock,
                   contextInstance, held, optInitialized, ydlReady, cacheVars>>
    /\ \/ /\ launches' = launches + 1
          /\ browserInstance' = launches + 1
          /\ connected' = TRUE
          /\ driverOf' = launches + 1
          /\ lockHolder' = lockHolder
          /\ pc' = [pc EXCEPT ![r] = "opt_context"]
          /\ UNCHANGED <<idx, raw, outcome, log>>
       \/ /\ UNCHANGED <<launches, browserInstance, connected, driverOf>>
          /\ lockHolder' = 0
          /\ Fail(r, ValueError(MsgExtract), "extract")
    /\ Finally(r)

\* _get_shared_browser: new_context(...) returns the context, which is
\* stored in _context_instance, or raises.  Either way the block `async with
\* async_playwright() as p` is left, which stops Playwright and with it the
\* browser it launched; whether the browser object has noticed, so that
\* is_connected() answers False, is not determined.  Then the lock is
\* released and the stored pair returned.
OptNewContext(r) ==
    /\ pc[r] = "opt_context"
    /\ UNCHANGED <<dbVars, ruser, rurl, chain, viaChain, session, entry, apiVars,
                   hadRowAtStart, raced, apiEverFailed, ops, memoAt, denied, clock,
                   browserInstance, launches, optInitialized, ydlReady, cacheVars>>
    /\ driverOf' = 0
    /\ lockHolder' = 0
    /\ connected' \in BOOLEAN
    /\ \/ /\ contextInstance' = browserInstance
          /\ held' = [held EXCEPT ![r] = browserInstance]
          /\ pc' = [pc EXCEPT ![r] = "opt_page"]
          /\ UNCHANGED <<idx, raw, outcome, log>>
       \/ /\ contextInstance' = contextInstance
          /\ held' = held
          /\ Fail(r, ValueError(MsgExtract), "extract")
    /\ Finally(r)

\* TikTokOptimizedIngestor.extract_metadata after _get_shared_browser:
\* context.new_page(), page.goto, the data script.  A context whose browser
\* is gone (or None) raises; a live one answers (and @cached stores the
\* result) or raises.
OptPage(r) ==
    /\ pc[r] = "opt_page"
    /\ UNCHANGED <<dbVars, ruser, rurl, chain, viaChain, session, entry, apiVars,
                   hadRowAtStart, raced, apiEverFailed, ops, memoAt, denied, clock,
                   lockHolder, browserInstance, contextInstance, connected, driverOf,
                   launches, optInitialized, ydlReady, ytCache>>
    /\ held' = [held EXCEPT ![r] = 0]
    /\ \/ /\ held[r] # 0
          /\ driverOf = held[r]
          /\ \E a \in RemoteAnswers("TikTokOptimizedIngestor", rurl[r]) :
                /\ ttCache' = Stored(ttCache, rurl[r], a)
                /\ Extracted(r, a)
       \/ /\ ttCache' = ttCache
          /\ Fail(r, ValueError(MsgExtract), "extract")
    /\ Finally(r)

\* Time passes; aiocache drops the entries that reach their time-to-live.
Tick ==
    /\ clock < MaxClock
    /\ clock' = clock + 1
    /\ ytCache' = {c \in ytCache : clock' - c.at < YouTubeTtl}
    /\ ttCache' = {c \in ttCache : clock' - c.at < TikTokTtl}
    /\ UNCHANGED <<dbVars, reqVars, apiVars, histVars, dbSessVars, ops, memoAt, denied,
                   browserVars>>

\* The URLs given to add_bookmark_ultra_fast.
OptUrls == {U_yt1, U_tt, U_ig, U_blog}

\* Concurrent create_bookmark_ultra_fast requests of one user.
NextOpt ==
    \/ \E r \in Reqs, url \in OptUrls : AddBookmarkUltraFast(r, 1, url)
    \/ \E r \in Reqs : ExtractSocial(r)
    \/ \E r \in Reqs : OptYouTubeBegin(r)
    \/ \E r \in Reqs : OptYouTubeRemote(r)
    \/ \E r \in Reqs : OptTikTokBegin(r)
    \/ \E r \in Reqs : OptAcquire(r)
    \/ \E r \in Reqs : OptLaunch(r)
    \/ \E r \in Reqs : OptNewContext(r)
    \/ \E r \in Reqs : OptPage(r)
    \/ \E r \in Reqs : Persist(r)
    \/ \E r \in Reqs, b \in BookmarkIns : Respond(r, b)

OptSpec == Init /\ [][NextOpt]_vars

\* The ingestors that memoize what extract_metadata returned.
MemoIngestors == {"TikTokApiIngestor", "YouTubeOptimizedIngestor", "TikTokOptimizedIngestor"}

TimedUrls == {U_tt, U_tt2, U_yt1}

\* One caller, one call at a time, to the memoizing ingestors, while time
\* passes.
NextTimed ==
    \/ \E ing \in MemoIngestors, url \in TimedUrls :
           can_handle(ing, url) /\ CreateNewBookmark(1, ing, 1, url)
    \/ ApiBegin(1)
    \/ ApiRemote(1)
    \/ OptYouTubeBegin(1)
    \/ OptYouTubeRemote(1)
    \/ OptTikTokBegin(1)
    \/ OptAcquire(1)
    \/ OptLaunch(1)
    \/ OptNewContext(1)
    \/ OptPage(1)
    \/ Persist(1)
    \/ \E b \in BookmarkIns : Respond(1, b)
    \/ Tick

TimedSpec == Init /\ [][NextTimed]_vars

\* -------------------------------------------------------------- typing
TypeOK ==
    /\ nextId \in 1..(MaxOps + 1)
    /\ ops \in 0..MaxOps
    /\ \A r \in Reqs : pc[r] \in {"idle", "extract", "api_remote", "persist", "done",
                                 "yt_remote", "opt_lock", "opt_launch", "opt_context",
                                 "opt_page"}
    /\ \A row \in bookmarks :
           row.id < nextId /\ row.user_id \in Users /\ row.url \in WideUrls \cup {U_tt2}
    /\ lockHolder \in {0} \cup Reqs
    /\ browserInstance \in 0..launches /\ contextInstance \in 0..launches
    /\ driverOf \in 0..launches /\ launches \in 0..MaxOps
    /\ clock \in 0..MaxClock
    /\ \A d \in details : \E row \in bookmarks : row.id = d.bookmark_id


\* ------------------------------------------------------ claim vocabulary
IsDuplicate(out) == out.kind = "ValueError" /\ out.msg = MsgDuplicate

\* Request r takes a step of add_bookmark (not of the caller around it).
AddStep(r) == pc[r] # "done" /\ (pc'[r] # pc[r] \/ idx'[r] # idx[r])

\* No ingestor of the call failed in extract_metadata or normalize_metadata.
NoExtractionFailure(lg) == \A i \in DOMAIN lg : lg[i].stage \in {"persist", "done"}

\* Number of chain members whose extract_metadata has been invoked.
Invoked(r) == Len(log[r]) + (IF pc[r] \in {"api_remote", "persist"} THEN 1 ELSE 0)

Memoized(url) == \E c \in metadataCache : c.url = url

RowsOf(user, url) == {row \in bookmarks : row.user_id = user /\ row.url = url}

\* C1: the bookmarks table never holds two rows with the same (user_id, url),
\* whatever add_bookmark and delete_bookmark calls interleave.
C1_NoTwoRowsPerUserUrl ==
    \A b1, b2 \in bookmarks :
        (b1.user_id = b2.user_id /\ b1.url = b2.url) => b1.id = b2.id

\* A call that raced with another call for the same (user, url) was refused
\* while the winner's row stands.
C1_Witness ==
    \E r \in Reqs :
        /\ pc[r] = "done"
        /\ raced[r]
        /\ outcome[r].kind # "ok"
        /\ Cardinality(RowsOf(ruser[r], rurl[r])) = 1

\* The row a finished call returned has not been deleted since.
StillStored(r) == outcome[r].kind = "ok" => \E row \in bookmarks : row.id = outcome[r].id

\* C2: of two concurrent add_bookmark calls for the same (user_id, url), both
\* begun while the pair had no row, whose extractions succeed (with no
\* delete_bookmark in between and no third call storing the URL or its
\* video), exactly one returns the envelope and the other ends with the
\* duplicate condition.
C2_RaceOneWinnerOneDuplicate ==
    \A r, q \in Reqs :
        (/\ r # q
         /\ pc[r] = "done" /\ pc[q] = "done"
         /\ raced[r] /\ raced[q]
         /\ ~hadRowAtStart[r] /\ ~hadRowAtStart[q]
         /\ \A row \in bookmarks :
                row.url = rurl[r] => row.id \in {outcome[r].id, outcome[q].id}
         /\ \A d \in details :
                d.video_id = ContentId(rurl[r]) => d.bookmark_id \in {outcome[r].id, outcome[q].id}
         /\ ruser[r] = ruser[q] /\ rurl[r] = rurl[q]
         /\ NoExtractionFailure(log[r]) /\ NoExtractionFailure(log[q])
         /\ StillStored(r) /\ StillStored(q))
        => \/ outcome[r].kind = "ok" /\ IsDuplicate(outcome[q])
           \/ outcome[q].kind = "ok" /\ IsDuplicate(outcome[r])

\* C3: a call is told "already bookmarked" for a URL (other than through a
\* YouTube video-id collision) only when the caller's own row for the URL
\* exists; another user's row for the URL does not refuse it.
C3_UniquenessPerUser ==
    [][\A r \in Reqs :
          (/\ AddStep(r)
           /\ pc'[r] = "done"
           /\ IsDuplicate(outcome'[r])
           /\ ~can_handle("YouTubeIngestor", rurl'[r]))
          => Existing(rurl'[r], ruser'[r], bookmarks)]_vars

\* C4: a step of add_bookmark(url, user) taken while the user's row for the
\* URL is stored creates no row and alters none.
C4_SecondAddChangesNothing ==
    [][\A r \in Reqs :
          (AddStep(r) /\ Existing(rurl'[r], ruser'[r], bookmarks))
          => (bookmarks' = bookmarks /\ details' = details)]_vars

\* A sequential re-submission ended as a duplicate and the pair still has
\* exactly one row.
C4_Witness ==
    \E r \in Reqs :
        /\ pc[r] = "done"
        /\ hadRowAtStart[r]
        /\ ~raced[r]
        /\ IsDuplicate(outcome[r])
        /\ Cardinality(RowsOf(ruser[r], rurl[r])) = 1

\* C5: a call for a URL the caller had bookmarked when the call began and
\* still has when it ends, none of whose extractions failed, ends with the
\* duplicate condition (HTTP 409) on every path.
C5_DuplicateIsAlways409 ==
    [][\A r \in Reqs :
          (/\ AddStep(r)
           /\ pc'[r] = "done"
           /\ hadRowAtStart'[r]
           /\ Existing(rurl'[r], ruser'[r], bookmarks)
           /\ NoExtractionFailure(log'[r]))
          => HttpStatus(outcome'[r]) = 409]_vars

\* C6: the TikTok members are tried in registry order, each at most once; no
\* member after the first one whose extract and normalize succeeded has its
\* extract invoked, and a returned bookmark carries that member's output.
C6_ChainShortCircuit ==
    \A r \in Reqs :
        viaChain[r] =>
            /\ Invoked(r) <= Len(chain[r])
            /\ \A i \in DOMAIN log[r] : log[r][i].ing = chain[r][i]
            /\ \A i \in DOMAIN log[r] :
                   log[r][i].stage \in {"persist", "done"} => Invoked(r) <= i
            /\ (pc[r] = "done" /\ outcome[r].kind = "ok") =>
                   \A row \in bookmarks :
                       row.id = outcome[r].id => row.raw.src = chain[r][Len(log[r])]

\* C7: every step of a TikTok chain call that does not return a bookmark
\* leaves both tables as they were, and the call ends in an error only as
\* ValueError 'All TikTok ingestors failed', after every member was tried
\* and failed.
C7_ChainExhaustion ==
    [][\A r \in Reqs :
          (viaChain[r] /\ AddStep(r) /\ outcome'[r].kind # "ok")
          => /\ bookmarks' = bookmarks
             /\ details' = details
             /\ pc'[r] = "done" =>
                   /\ outcome'[r].kind = "ValueError"
                   /\ outcome'[r].msg = MsgAllFailed
                   /\ Len(log'[r]) = Len(chain[r])
                   /\ \A i \in DOMAIN log'[r] : log'[r][i].err # Null]_vars

\* Every member of a chain failed in extraction or normalization and the
\* call ended with 'All TikTok ingestors failed'.
C7_Witness ==
    \E r \in Reqs :
        /\ pc[r] = "done"
        /\ viaChain[r]
        /\ outcome[r].msg = MsgAllFailed
        /\ Len(log[r]) = 2
        /\ \A i \in DOMAIN log[r] : log[r][i].stage \in {"extract", "normalize"}

\* C8: once TikTokApiIngestor.extract_metadata has failed, a later call for
\* a URL that is not memoized fails at once, without initializing or calling
\* the API, and the chain goes on with the next TikTok ingestor.
C8_CircuitBreaker ==
    [][\A r \in Reqs :
          (/\ pc[r] = "extract"
           /\ Current(r) = "TikTokApiIngestor"
           /\ apiEverFailed
           /\ ~Memoized(rurl[r])
           /\ AddStep(r))
          => /\ pc'[r] = "extract"
             /\ idx'[r] = idx[r] + 1
             /\ chain[r][idx'[r]] = "TikTokIngestor"
             /\ log'[r][Len(log'[r])].err = MsgUnavailable
             /\ apiInitialized' = apiInitialized
             /\ metadataCache' = metadataCache
             /\ ~apiAvailable']_vars

\* After a failure of the API ingestor a later call was turned away at the
\* availability check and moved on to the next chain member.
C8_Witness ==
    \E r \in Reqs :
        /\ apiEverFailed
        /\ viaChain[r]
        /\ idx[r] = 2
        /\ log[r][1].err = MsgUnavailable

\* The row a basic-bookmark call has to store for `url`.
IsBasicRow(row, url, user, tag) ==
    /\ row.url = url /\ row.user_id = user /\ row.platform = tag
    /\ row.title = Null /\ row.author = Null /\ row.thumbnail_url = Null
    /\ row.description = Null /\ row.published_at = Null
    /\ row.raw = RawEmpty

C10_DetailsCollisionRollsBack ==
    [][\A r \in Reqs :
          (/\ pc[r] = "persist"
           /\ Current(r) = "YouTubeIngestor"
           /\ raw[r].id # ""
           /\ \E d \in details : d.video_id = raw[r].id
           /\ ~\E row \in bookmarks : row.url = rurl[r]
           /\ AddStep(r))
          => /\ bookmarks' = bookmarks
             /\ details' = details
             /\ pc'[r] = "done"
             /\ IsDuplicate(outcome'[r])]_vars

\* A YouTube call ended as a duplicate at the insert although its URL is
\* not stored: the video is stored under another URL.
C10_Witness ==
    \E r \in Reqs :
        /\ pc[r] = "done"
        /\ IsDuplicate(outcome[r])
        /\ Len(log[r]) = 1
        /\ log[r][1].ing = "YouTubeIngestor"
        /\ log[r][1].stage = "persist"
        /\ ~\E row \in bookmarks : row.url = rurl[r]
        /\ \E d \in details : d.video_id = ContentId(rurl[r])

\* The ingestors of the registry.
Registered == {INGESTORS[i] : i \in DOMAIN INGESTORS}

\* C11: for every registered ingestor, normalize_metadata raises whenever
\* the raw data carries no content/video id, and the add_bookmark call then
\* persists no row.
C11_NormalizeNeedsContentId ==
    [][\A r \in Reqs :
          (/\ pc[r] = "persist"
           /\ entry[r] = "add_bookmark"
           /\ Current(r) \in Registered
           /\ raw[r].id = ""
           /\ AddStep(r))
          => /\ log'[r][Len(log'[r])].stage = "normalize"
             /\ bookmarks' = bookmarks
             /\ details' = details]_vars

\* C12: every failure of add_bookmark is raised as a ValueError or as a
\* RuntimeError, and create_bookmark maps each outcome to exactly one of
\* success, 409 (duplicate), 422 (other ValueError), 500 (RuntimeError, with
\* the constant detail 'Internal server error').
C12_TwoErrorTypesFourResponses ==
    \A r \in Reqs :
        (pc[r] = "done" /\ entry[r] = "add_bookmark") =>
            LET out == outcome[r]
                status == HttpStatus(out)
            IN /\ out.kind \in {"ok", "ValueError", "RuntimeError"}
               /\ status \in {200, 409, 422, 500}
               /\ (status = 200) <=> (out.kind = "ok")
               /\ (status = 409) <=> IsDuplicate(out)
               /\ (status = 422) <=> (out.kind = "ValueError" /\ ~IsDuplicate(out))
               /\ (status = 500) <=> (out.kind = "RuntimeError")
               /\ (status = 500) => HttpDetail(out) = "Internal server error"
               /\ (status \in {409, 422}) => HttpDetail(out) = out.msg

\* An add_bookmark call ended with a RuntimeError, answered as 500.
C12_Witness ==
    \E r \in Reqs :
        /\ pc[r] = "done"
        /\ entry[r] = "add_bookmark"
        /\ outcome[r].kind = "RuntimeError"
        /\ HttpStatus(outcome[r]) = 500
        /\ HttpDetail(outcome[r]) = "Internal server error"

\* What create_bookmark sends back for a finished add_bookmark call: the
\* envelope of the returned bookmark, or the body of the HTTPException.
ResponseBody(r) ==
    IF outcome[r].kind = "ok"
    THEN _format_bookmark_response(CHOOSE row \in bookmarks : row.id = outcome[r].id, details)
    ELSE [detail |-> HttpDetail(outcome[r])]

C14_ExistenceCheckFirst ==
    \A r \in Reqs :
        (entry[r] = "add_bookmark" /\ hadRowAtStart[r]) => Invoked(r) = 0

\* C15: whenever add_bookmark ends in an error of any kind (duplicate,
\* extraction or normalization failure, unexpected exception, also one
\* raised after the bookmark was added and flushed), no step of the call has
\* changed the bookmarks or youtube_details tables and the session holds no
\* pending uncommitted bookmark.
C15_ErrorLeavesNoPartialState ==
    [][\A r \in Reqs :
          (entry'[r] = "add_bookmark" /\ AddStep(r) /\ outcome'[r].kind # "ok")
          => /\ bookmarks' = bookmarks
             /\ details' = details
             /\ pc'[r] = "done" => session'[r] = {}]_vars

\* The values the check constraint of bookmarks.platform allows.
PlatformTags == {"youtube", "tiktok", "instagram", "twitter", "linkedin", "reddit",
                 "pinterest", "snapchat", "facebook", "other"}

\* C16: the classifier is total: for every input string _detect_platform
\* returns one of the ten tags of the platform check constraint, and every
\* stored bookmark carries one of them.
C16_ClassifierTotal ==
    /\ \A url \in WideUrls : _detect_platform(url) \in PlatformTags
    /\ \A row \in bookmarks : row.platform \in PlatformTags

\* Basic bookmarks are stored for strings without scheme and host, tagged by
\* the classifier.
C16_Witness ==
    \E row \in bookmarks :
        /\ ~validate_url(row.url)
        /\ row.raw = RawEmpty
        /\ row.platform = _detect_platform(row.url)
        /\ row.platform \in PlatformTags

\* C17: every ingestor's extract_metadata fails with an extraction error
\* when it is given a malformed URL (no scheme or no host); none returns a
\* metadata record for such a URL.
C17_MalformedUrlFailsExtraction ==
    [][\A r \in Reqs :
          (/\ pc[r] \in {"extract", "api_remote"}
           /\ ~validate_url(rurl[r])
           /\ AddStep(r))
          => /\ pc'[r] # "persist"
             /\ pc'[r] \in {"extract", "done"}
                    => log'[r][Len(log'[r])].stage = "extract"]_vars

\* C18: every persisted bookmark whose platform is youtube has exactly one
\* youtube_details row, whichever path created it.
C18_YouTubeHasOneDetailsRow ==
    \A row \in bookmarks :
        row.platform = "youtube" =>
            Cardinality({d \in details : d.bookmark_id = row.id}) = 1

\* C19: after any sequence of add_bookmark and delete_bookmark operations
\* every youtube_details row references a stored bookmark: a bookmark's
\* details row is deleted in the step that deletes the bookmark, and no
\* orphan details row remains.
C19_NoOrphanDetails ==
    \A d \in details : \E row \in bookmarks : row.id = d.bookmark_id

\* A YouTube bookmark that add_bookmark returned has been deleted since, and
\* its details row with it.
C19_Witness ==
    \E r \in Reqs :
        /\ pc[r] = "done"
        /\ outcome[r].kind = "ok"
        /\ chain[r] = <<"YouTubeIngestor">>
        /\ ~\E row \in bookmarks : row.id = outcome[r].id
        /\ ~\E d \in details : d.bookmark_id = outcome[r].id

\* Ingestor g is the first one in registry order that can handle the URL.
IsFirstCapable(g, url) ==
    \E i \in DOMAIN INGESTORS :
        /\ INGESTORS[i] = g
        /\ can_handle(g, url)
        /\ \A j \in 1..(i - 1) : ~can_handle(INGESTORS[j], url)

\* C20: get_ingestor(url) returns the first ingestor in registry order whose
\* can_handle(url) is true, and None exactly when no registered ingestor can
\* handle the URL; add_bookmark's single-ingestor path works with that one.
C20_FirstCapableIngestor ==
    /\ \A url \in WideUrls :
           /\ (get_ingestor(url) = Null)
                  <=> (\A i \in DOMAIN INGESTORS : ~can_handle(INGESTORS[i], url))
           /\ get_ingestor(url) # Null => IsFirstCapable(get_ingestor(url), url)
    /\ \A r \in Reqs :
           (entry[r] = "add_bookmark" /\ ~viaChain[r] /\ chain[r] # <<>>)
           => Len(chain[r]) = 1 /\ IsFirstCapable(chain[r][1], rurl[r])

\* add_bookmark dispatched a URL that two registered ingestors can handle to
\* the earlier one, after a URL that none can handle got a basic bookmark.
C20_Witness ==
    /\ \E r \in Reqs :
           /\ entry[r] = "add_bookmark"
           /\ chain[r] = <<"YouTubeIngestor">>
           /\ can_handle("InstagramIngestor", rurl[r])
    /\ \E row \in bookmarks :
           /\ row.raw = RawEmpty
           /\ get_ingestor(row.url) = Null

\* C21: no step of a creation request changes or removes a bookmark row that
\* was stored before the call, of the caller or of any other user, whether
\* the call succeeds or fails: add_bookmark only ever inserts a row with an
\* id no stored row has, and create_bookmark then writes the caller's title
\* and note to that new row alone.
C21_ExistingRowsUntouched ==
    [][\A r \in Reqs :
          /\ AddStep(r) =>
                /\ \A row \in bookmarks : row \in bookmarks'
                /\ (pc'[r] = "done" /\ outcome'[r].kind = "ok")
                       => ~\E row \in bookmarks : row.id = outcome'[r].id
          /\ (pc[r] = "done" /\ pc'[r] = "idle") =>
                \A row \in bookmarks :
                    (outcome[r].kind # "ok" \/ row.id # outcome[r].id)
                        => row \in bookmarks']_vars

\* A later creation request wrote its title and note to its own new row
\* while an older row of the same user stands as it was stored.
C21_Witness ==
    \E old, new \in bookmarks :
        /\ old.id < new.id
        /\ old.user_id = new.user_id
        /\ new.title = "my title" /\ new.note = "my note"
        /\ old.title # "my title" /\ old.note = Null
        /\ \A r \in Reqs : pc[r] = "idle"

\* C22: a session that add_bookmark opened itself (db is None) is closed in
\* the step in which the call ends, on every exit path (success, duplicate or
\* validation error, unexpected exception); a session supplied by the caller
\* stays open through every step of add_bookmark and is closed by get_db
\* when the request ends.
C22_SessionReleasedOnEveryExit ==
    [][\A r \in Reqs :
          /\ (AddStep(r) /\ entry'[r] = "add_bookmark" /\ should_close_db'[r])
                => (dbOpen'[r] <=> pc'[r] # "done")
          /\ (AddStep(r) /\ entry'[r] = "add_bookmark" /\ ~should_close_db'[r])
                => dbOpen'[r]
          /\ (pc[r] = "done" /\ pc'[r] = "idle" /\ ~should_close_db[r])
                => (dbOpen[r] /\ ~dbOpen'[r])]_vars

\* A call that opened its own session ended with an unexpected exception
\* after its extraction, and the session is closed with no row pending.
C22_Witness ==
    \E r \in Reqs :
        /\ pc[r] = "done"
        /\ entry[r] = "add_bookmark"
        /\ should_close_db[r]
        /\ outcome[r].kind = "RuntimeError"
        /\ ~dbOpen[r]
        /\ session[r] = {}

\* ------------------------------------------------ the shared browser
\* C23: once _get_shared_browser has stored a browser and a context, every
\* later extraction that passes the lock is handed that same pair without a
\* new launch, the pair is still usable when the extraction opens its page,
\* and at most one launch is in progress at any time.
C23_SharedBrowserReused ==
    [][/\ \A r \in Reqs :
            /\ (/\ pc[r] = "opt_lock"
                /\ pc'[r] # "opt_lock"
                /\ browserInstance # 0
                /\ contextInstance # 0)
                  => /\ pc'[r] = "opt_page"
                     /\ held'[r] = contextInstance
                     /\ launches' = launches
            /\ (pc[r] = "opt_page" /\ pc'[r] # "opt_page" /\ held[r] # 0)
                  => driverOf = held[r]
       /\ Cardinality({r \in Reqs : pc'[r] \in {"opt_launch", "opt_context"}}) <= 1]_vars

\* C24: every step that changes _browser_instance or _context_instance is
\* taken by the task that holds _browser_lock, and no other task is inside
\* the launch at that moment.
C24_WritesOnlyUnderLock ==
    [][(browserInstance' # browserInstance \/ contextInstance' # contextInstance)
          => \E r \in Reqs :
                /\ lockHolder = r
                /\ pc[r] \in {"opt_launch", "opt_context"}
                /\ pc'[r] # pc[r]
                /\ \A q \in Reqs \ {r} :
                      /\ pc[q] \notin {"opt_launch", "opt_context"}
                      /\ pc'[q] = pc[q]]_vars

\* A task has stored the browser and holds the lock while another waits for it.
C24_Witness ==
    \E r, q \in Reqs :
        /\ r # q
        /\ lockHolder = r
        /\ pc[r] = "opt_context"
        /\ browserInstance # 0
        /\ pc[q] = "opt_lock"

\* ------------------------------------------------- memoized results
\* C25: a memoizing extract_metadata returns a memoized result, instead of
\* running the extraction, only while the result is younger than the
\* time-to-live: 30 minutes for the TikTok ingestors, 60 for YouTube.
C25_MemoHasBoundedLifetime ==
    [][\A r \in Reqs :
          (pc[r] = "extract" /\ pc'[r] = "persist") =>
              /\ Current(r) = "TikTokApiIngestor" =>
                    \E m \in memoAt : m.url = rurl[r] /\ clock - m.at < TikTokTtl
              /\ Current(r) = "TikTokOptimizedIngestor" =>
                    \E c \in ttCache : c.url = rurl[r] /\ clock - c.at < TikTokTtl
              /\ Current(r) = "YouTubeOptimizedIngestor" =>
                    \E c \in ytCache : c.url = rurl[r] /\ clock - c.at < YouTubeTtl]_vars

\* C27: while TikTokApiIngestor is marked unavailable, extract_metadata of a
\* memoized URL still returns the memoized result, and extract_metadata of
\* any other URL raises the unavailability error without touching the API.
C27_MemoBeforeAvailability ==
    [][\A r \in Reqs :
          (/\ pc[r] = "extract"
           /\ Current(r) = "TikTokApiIngestor"
           /\ ~apiAvailable
           /\ (pc'[r] # pc[r] \/ idx'[r] # idx[r])) =>
              IF Memoized(rurl[r])
              THEN /\ pc'[r] = "persist"
                   /\ \E c \in metadataCache : c.url = rurl[r] /\ raw'[r] = c.raw
                   /\ log' = log
              ELSE /\ pc'[r] \notin {"persist", "api_remote"}
                   /\ Len(log'[r]) = Len(log[r]) + 1
                   /\ log'[r][Len(log'[r])].err = MsgUnavailable
                   /\ apiInitialized' = apiInitialized
                   /\ metadataCache' = metadataCache]_vars

\* The unavailable ingestor has just answered a memoized URL from its memo.
C27_Witness ==
    \E r \in Reqs :
        /\ pc[r] = "persist"
        /\ Current(r) = "TikTokApiIngestor"
        /\ ~apiAvailable
        /\ Memoized(rurl[r])
        /\ raw[r] \in {c.raw : c \in metadataCache}

\* ------------------------------------------- one invocation path
\* C26: whatever the kind of the ingestor's extract_metadata, plain or
\* coroutine, the orchestrator obtains its result: no call of add_bookmark or
\* add_bookmark_ultra_fast fails in the invocation itself.
C26_OneInvocationPath ==
    \A r \in Reqs : \A i \in DOMAIN log[r] :
        /\ log[r][i].stage # "await"
        /\ log[r][i].err # MsgAwait

\* ------------------------------------------------ add, delete, add
\* C28: a delete_bookmark that removes a row leaves its URL and, for a
\* YouTube bookmark, its video id free, and add_bookmark of a free URL whose
\* metadata was obtained creates a new row (with its details row) under an id
\* no row had, unless the database itself fails.
C28_AddDeleteAdd ==
    [][/\ \A row \in bookmarks \ bookmarks' :
            (pc' = pc) =>
                /\ ~UrlTaken(row.url, bookmarks')
                /\ \A d \in details :
                      d.bookmark_id = row.id => ~VideoTaken(d.video_id, details')
       /\ \A r \in Reqs :
            (/\ pc[r] = "persist"
             /\ pc'[r] # "persist"
             /\ normalize_metadata(Current(r), raw[r]).ok
             /\ session[r] = {}
             /\ ~UrlTaken(rurl[r], bookmarks)
             /\ ~VideoTaken(ContentId(rurl[r]), details)) =>
                \/ /\ pc'[r] = "done"
                   /\ outcome'[r].kind = "ok"
                   /\ ~\E row \in bookmarks : row.id = outcome'[r].id
                   /\ \E row \in bookmarks' :
                         /\ row.id = outcome'[r].id
                         /\ row.url = rurl[r]
                         /\ row.user_id = ruser[r]
                   /\ platform(Current(r)) = "youtube" =>
                         \E d \in details' : d.bookmark_id = outcome'[r].id
                \/ /\ bookmarks' = bookmarks
                   /\ Len(log'[r]) > 0
                   /\ log'[r][Len(log'[r])].stage = "commit"]_vars

\* A user's YouTube bookmark was added and deleted, and the same user's
\* second add_bookmark of the URL has returned a new bookmark with details.
C28_Witness ==
    \E r, q \in Reqs :
        /\ r # q
        /\ pc[r] = "done" /\ pc[q] = "done"
        /\ outcome[r].kind = "ok" /\ outcome[q].kind = "ok"
        /\ outcome[r].id < outcome[q].id
        /\ ruser[r] = ruser[q]
        /\ rurl[r] = rurl[q]
        /\ chain[q] = <<"YouTubeIngestor">>
        /\ ~\E row \in bookmarks : row.id = outcome[r].id
        /\ \E row \in bookmarks : row.id = outcome[q].id /\ row.url = rurl[q]
        /\ \E d \in details : d.bookmark_id = outcome[q].id

\* ---------------------------------------------------- owner isolation
\* C29: delete_bookmark by a user on the id of another user's bookmark
\* answers 404 and changes no row; whenever the table has changed,
\* list_bookmarks returns only bookmarks of the caller; and no step changes
\* the user_id of a bookmark.
C29_OwnerIsolation ==
    [][/\ \A user \in Users, bookmark_id \in 1..MaxOps :
            (/\ DeleteBookmark(user, bookmark_id)
             /\ \E row \in bookmarks : row.id = bookmark_id /\ row.user_id # user)
               => /\ DeleteStatus(bookmarks, bookmark_id, user) = 404
                  /\ bookmarks' = bookmarks
                  /\ details' = details
       /\ \A row \in bookmarks, after \in bookmarks' :
            row.id = after.id => row.user_id = after.user_id
       /\ bookmarks' # bookmarks =>
            \A user \in Users, prm \in ListParams :
                LET res == list_bookmarks(user, prm, bookmarks', details')
                IN \A i \in DOMAIN res.results :
                       \E row \in bookmarks' :
                           row.id = res.results[i].id /\ row.user_id = user]_vars

\* A user's delete_bookmark on another user's bookmark was refused and the
\* bookmark is still listed for its owner and not for the refused user.
C29_Witness ==
    /\ denied
    /\ \E row \in bookmarks :
          /\ \A prm \in {p \in ListParams : p.platform = Null /\ p.q = Null /\ p.offset = 0} :
                Len(list_bookmarks(row.user_id, prm, bookmarks, details).results) = 1
          /\ \E other \in Users \ {row.user_id} :
                \A prm \in ListParams :
                    Len(list_bookmarks(other, prm, bookmarks, details).results) = 0

\* ------------------------------------------------- the two classifiers
\* C30: for every URL, main.detect_platform and the _detect_platform of both
\* registries return the same platform, so the platform of a basic bookmark
\* is the one main.detect_platform gives for its URL.
C30_ClassifiersAgree ==
    /\ \A url \in WideUrls :
           /\ detect_platform(url) = _detect_platform(url)
           /\ _detect_platform_optimized(url) = _detect_platform(url)
    /\ \A row \in bookmarks :
           row.raw = RawEmpty => row.platform = detect_platform(row.url)

====
